---- MODULE Spec2Model ----
(***************************************************************************)
(* A model of android_otp_extractor/contrib.py:                            *)
(*   - open_remote_sqlite_database : the remote snapshot loader            *)
(*   - display_qr_codes            : the ephemeral disclosure renderer     *)
(*   - escape_sql_string           : the SQL literal escaper               *)
(* The three components share no state; each has its own specification     *)
(* (Spec, SpecQr, SpecEsc) over the same variables, the variables of the    *)
(* other two components staying at their initial values.                   *)
(*                                                                         *)
(* Characters of remote paths are one-character strings; characters of     *)
(* SQL text and of URIs are code points (integers), because the escaper's  *)
(* table holds control characters and sorted() compares code points.       *)
(***************************************************************************)
EXTENDS Integers, Sequences, FiniteSets, TLC

VARIABLES
    \* ---- open_remote_sqlite_database ----
    database_arg,   \* the `database` argument as passed (a string, as characters)
    database,       \* `database` after line 37 (a PurePosixPath)
    status,         \* remote file system: outcome of adb.read_file per candidate
    content,        \* remote file system: bytes of each candidate
    pc,             \* position in open_remote_sqlite_database
    idx,            \* position of the for loop in the suffix list (1..4, 5 = done)
    temp_dir,       \* does the TemporaryDirectory exist on disk
    local,          \* files of temp_dir: base name -> bytes
    reads,          \* the remote paths handed to adb.read_file, in order
    connection,     \* "none" | "open" | "closed"
    yielded,        \* has the connection been yielded to the caller
    pending,        \* exception in flight while the with-blocks unwind
    result,         \* how the caller's with statement ended
    events,         \* release log: "close" / "rmtree", in order
    \* ---- display_qr_codes ----
    accounts,       \* the `accounts` argument
    prepend_issuer, \* the `prepend_issuer` argument
    qpc,            \* position in display_qr_codes
    embedded,       \* the array ACCOUNTS of the rendered page
    temp_html_file, \* "none" | "exists" | "removed"
    written,        \* has the page been written into the file
    viewer,         \* outcome of webbrowser.open
    qpending,       \* exception in flight in display_qr_codes
    qresult,        \* how display_qr_codes ended
    \* ---- escape_sql_string ----
    text,           \* the argument of escape_sql_string
    epc,            \* "call" | "escaped" | "read"
    literal,        \* the value escape_sql_string returned
    parsed          \* the text SQLite reads from the literal

dbVars == <<database_arg, database, status, content, pc, idx, temp_dir, local,
            reads, connection, yielded, pending, result, events>>
qrVars == <<accounts, prepend_issuer, qpc, embedded, temp_html_file, written,
            viewer, qpending, qresult>>
escVars == <<text, epc, literal, parsed>>
vars == <<dbVars, qrVars, escVars>>

(***************************************************************************)
(* Remote snapshot loader: open_remote_sqlite_database                     *)
(***************************************************************************)

\* contrib.py:42 -- the suffix list of the for loop, in order
Suffixes == << <<>>,
               <<"-", "j", "o", "u", "r", "n", "a", "l">>,
               <<"-", "w", "a", "l">>,
               <<"-", "s", "h", "m">> >>

\* str.split("/") as pathlib parses a path string
RECURSIVE SplitSlash(_, _, _)
SplitSlash(s, cur, acc) ==
    IF s = <<>> THEN Append(acc, cur)
    ELSE IF Head(s) = "/" THEN SplitSlash(Tail(s), <<>>, Append(acc, cur))
    ELSE SplitSlash(Tail(s), Append(cur, Head(s)), acc)

\* contrib.py:37 -- PurePosixPath(database): empty and "." segments collapse
PurePosixPath(raw) ==
    [root  |-> raw # <<>> /\ Head(raw) = "/",
     parts |-> SelectSeq(SplitSlash(raw, <<>>, <<>>),
                         LAMBDA p : p # <<>> /\ p # <<".">>)]

\* PurePosixPath.name: the final component, empty when there is none
Name(p) == IF p.parts = <<>> THEN <<>> ELSE p.parts[Len(p.parts)]

\* a wrong derivation: the suffix replaces the extension (with_suffix)
Stem(n) ==
    IF \E k \in 2..Len(n) : n[k] = "."
    THEN SubSeq(n, 1, (CHOOSE k \in 2..Len(n) :
                          n[k] = "." /\ \A j \in (k+1)..Len(n) : n[j] # ".") - 1)
    ELSE n
RemoteFileReplacingExtension(p, suffix) ==
    [p EXCEPT !.parts = SubSeq(p.parts, 1, Len(p.parts) - 1)
                            \o << Stem(Name(p)) \o suffix >>]

\* contrib.py:43 -- database.with_name(database.name + suffix)
RemoteFile(p, suffix) ==
    [p EXCEPT !.parts = SubSeq(p.parts, 1, Len(p.parts) - 1)
                            \o << Name(p) \o suffix >>]

\* the `database` arguments explored
DatabaseArgs ==
    { <<"/", "d", "/", "a", ".", "d", "b">>,          \* /d/a.db
      <<"d", "/", "a", ".", "d", "b">>,               \* d/a.db
      <<"a", ".", "d", "b">>,                         \* a.db
      <<"/", "d", "/", "k">>,                         \* /d/k
      <<"/", "d", "/", "/", "k", "/">>,               \* /d//k/
      <<"/", "d", "/", ".", "/", "a", ".", "b", ".", "c">>,  \* /d/./a.b.c
      <<"/">>,                                        \* no file name
      <<>> }                                          \* no file name

\* adb.read_file outcomes: the file's stream, FileNotFoundError, any other error
ReadOutcomes == {"present", "missing", "error"}
Bytes == { <<>>, <<1>> }

NoPath == [root |-> FALSE, parts |-> <<>>]

InitDbIdle ==
    /\ database_arg = <<>>
    /\ database = NoPath
    /\ status = [k \in 1..4 |-> "present"]
    /\ content = [k \in 1..4 |-> <<>>]
    /\ pc = "idle"
    /\ idx = 1
    /\ temp_dir = FALSE
    /\ local = <<>>
    /\ reads = <<>>
    /\ connection = "none"
    /\ yielded = FALSE
    /\ pending = "none"
    /\ result = "none"
    /\ events = <<>>

InitDb ==
    /\ database_arg \in DatabaseArgs
    /\ database = NoPath
    /\ status \in [1..4 -> ReadOutcomes]
    /\ content \in [1..4 -> Bytes]
    /\ pc = "enter"
    /\ idx = 1
    /\ temp_dir = FALSE
    /\ local = <<>>
    /\ reads = <<>>
    /\ connection = "none"
    /\ yielded = FALSE
    /\ pending = "none"
    /\ result = "none"
    /\ events = <<>>

\* contrib.py:37-40 -- parse the path, create the temporary directory
Enter ==
    /\ pc = "enter"
    /\ database' = PurePosixPath(database_arg)
    /\ temp_dir' = TRUE
    /\ pc' = "loop"
    /\ UNCHANGED <<qrVars, escVars, database_arg, status, content, idx, local,
                   reads, connection,
                   yielded, pending, result, events>>

\* contrib.py:43 -- with_name raises ValueError on a path without a file name
WithNameFails ==
    /\ pc = "loop" /\ idx <= 4
    /\ Name(database) = <<>>
    /\ pending' = "ValueError"
    /\ pc' = "cleanup"
    /\ UNCHANGED <<qrVars, escVars, database_arg, database, status, content,
                   idx, temp_dir, local,
                   reads, connection, yielded, result, events>>

\* contrib.py:46,51-52 -- the read succeeds: write_bytes under remote_file.name
ReadOk ==
    /\ pc = "loop" /\ idx <= 4
    /\ Name(database) # <<>>
    /\ status[idx] = "present"
    /\ LET remote_file == RemoteFile(database, Suffixes[idx]) IN
        /\ reads' = Append(reads, remote_file)
        /\ local' = [n \in DOMAIN local \cup {Name(remote_file)} |->
                        IF n = Name(remote_file) THEN content[idx] ELSE local[n]]
    /\ idx' = idx + 1
    /\ UNCHANGED <<qrVars, escVars, database_arg, database, status, content,
                   pc, temp_dir,
                   connection, yielded, pending, result, events>>

\* a wrong handler: the primary's FileNotFoundError swallowed like a side file's
ReadNotFoundPrimarySwallowed ==
    /\ pc = "loop" /\ idx = 1
    /\ Name(database) # <<>>
    /\ status[idx] = "missing"
    /\ reads' = Append(reads, RemoteFile(database, Suffixes[idx]))
    /\ idx' = idx + 1
    /\ UNCHANGED <<qrVars, escVars, database_arg, database, status, content,
                   pc, temp_dir, local,
                   connection, yielded, pending, result, events>>

\* contrib.py:47-50 -- FileNotFoundError on the primary file: raise e
ReadNotFoundPrimary ==
    /\ pc = "loop" /\ idx = 1
    /\ Name(database) # <<>>
    /\ status[idx] = "missing"
    /\ reads' = Append(reads, RemoteFile(database, Suffixes[idx]))
    /\ pending' = "FileNotFoundError"
    /\ pc' = "cleanup"
    /\ UNCHANGED <<qrVars, escVars, database_arg, database, status, content,
                   idx, temp_dir, local,
                   connection, yielded, result, events>>

\* a wrong handler: a side file's FileNotFoundError re-raised
ReadNotFoundSideRaised ==
    /\ pc = "loop" /\ idx \in 2..4
    /\ status[idx] = "missing"
    /\ reads' = Append(reads, RemoteFile(database, Suffixes[idx]))
    /\ pending' = "FileNotFoundError"
    /\ pc' = "cleanup"
    /\ UNCHANGED <<qrVars, escVars, database_arg, database, status, content,
                   idx, temp_dir, local,
                   connection, yielded, result, events>>

\* contrib.py:47-49 -- FileNotFoundError on a side file: skipped
ReadNotFoundSide ==
    /\ pc = "loop" /\ idx \in 2..4
    /\ status[idx] = "missing"
    /\ reads' = Append(reads, RemoteFile(database, Suffixes[idx]))
    /\ idx' = idx + 1
    /\ UNCHANGED <<qrVars, escVars, database_arg, database, status, content,
                   pc, temp_dir, local,
                   connection, yielded, pending, result, events>>

\* a wrong handler: every read error swallowed (a bare except)
ReadErrorSwallowed ==
    /\ pc = "loop" /\ idx <= 4
    /\ Name(database) # <<>>
    /\ status[idx] = "error"
    /\ reads' = Append(reads, RemoteFile(database, Suffixes[idx]))
    /\ idx' = idx + 1
    /\ UNCHANGED <<qrVars, escVars, database_arg, database, status, content,
                   pc, temp_dir, local,
                   connection, yielded, pending, result, events>>

\* contrib.py:45-47 -- an error that is no FileNotFoundError is not caught
ReadError ==
    /\ pc = "loop" /\ idx <= 4
    /\ Name(database) # <<>>
    /\ status[idx] = "error"
    /\ reads' = Append(reads, RemoteFile(database, Suffixes[idx]))
    /\ pending' = "TransferFailure"
    /\ pc' = "cleanup"
    /\ UNCHANGED <<qrVars, escVars, database_arg, database, status, content,
                   idx, temp_dir, local,
                   connection, yielded, result, events>>

\* contrib.py:54-59 -- connect to the local primary, set row_factory, yield
Connect ==
    /\ pc = "loop" /\ idx = 5
    /\ connection' = "open"
    /\ yielded' = TRUE
    /\ pc' = "yielded"
    /\ UNCHANGED <<qrVars, escVars, database_arg, database, status, content,
                   idx, temp_dir, local,
                   reads, pending, result, events>>

\* the caller's block raises and nothing is released (no closing, no with)
CallerRaisesNoRelease ==
    /\ pc = "yielded"
    /\ result' = "CallerError"
    /\ pc' = "done"
    /\ UNCHANGED <<qrVars, escVars, database_arg, database, status, content,
                   idx, temp_dir, local,
                   reads, connection, yielded, pending, events>>

\* contrib.py:59 -- the caller's block ends normally or by an early return:
\* the generator resumes after the yield
CallerCompletes ==
    /\ pc = "yielded"
    /\ pending' \in {"none", "EarlyReturn"}
    /\ pc' = "close"
    /\ UNCHANGED <<qrVars, escVars, database_arg, database, status, content,
                   idx, temp_dir, local,
                   reads, connection, yielded, result, events>>

\* contrib.py:59 -- the caller's block raises: thrown into the generator at the yield
CallerRaises ==
    /\ pc = "yielded"
    /\ pending' = "CallerError"
    /\ pc' = "close"
    /\ UNCHANGED <<qrVars, escVars, database_arg, database, status, content,
                   idx, temp_dir, local,
                   reads, connection, yielded, result, events>>

\* contrib.py:56 -- contextlib.closing.__exit__: connection.close()
Close ==
    /\ pc = "close"
    /\ connection' = "closed"
    /\ events' = Append(events, "close")
    /\ pc' = "cleanup"
    /\ UNCHANGED <<qrVars, escVars, database_arg, database, status, content,
                   idx, temp_dir, local,
                   reads, yielded, pending, result>>

\* contrib.py:39 -- TemporaryDirectory.__exit__: the directory and its files go,
\* then the pending exception (if any) reaches the caller
Cleanup ==
    /\ pc = "cleanup"
    /\ temp_dir' = FALSE
    /\ local' = <<>>
    /\ events' = Append(events, "rmtree")
    /\ result' = IF pending \in {"none", "EarlyReturn"} THEN "ok" ELSE pending
    /\ pc' = "done"
    /\ UNCHANGED <<qrVars, escVars, database_arg, database, status, content,
                   idx, reads, connection,
                   yielded, pending>>

Next ==
    \/ Enter
    \/ WithNameFails
    \/ ReadOk
    \/ ReadNotFoundPrimary
    \/ ReadNotFoundSide
    \/ ReadError
    \/ Connect
    \/ CallerCompletes
    \/ CallerRaises
    \/ Close
    \/ Cleanup

(***************************************************************************)
(* Ephemeral disclosure renderer: display_qr_codes                         *)
(***************************************************************************)

\* bound: the longest `accounts` list explored
MaxAccounts == 3

\* code points used in URIs
ChSlash == 47
ChColon == 58
ChSpace == 32
ChRBracket == 93

\* the OTPAccount objects explored: type t(otp) or h(otp), issuer, label
Accounts ==
    { [type |-> <<116>>, issuer |-> <<73>>, label |-> <<66>>],      \* t, I, B
      [type |-> <<116>>, issuer |-> <<74>>, label |-> <<65>>],      \* t, J, A
      [type |-> <<104>>, issuer |-> <<72>>, label |-> <<65, 66>>],  \* h, H, AB
      [type |-> <<116>>, issuer |-> <<73>>, label |-> <<65, 66>>] } \* t, I, AB

\* OTPAccount.as_uri(prepend_issuer): type/label or type/issuer:label
as_uri(a, prepend) ==
    a.type \o <<ChSlash>>
           \o (IF prepend THEN a.issuer \o <<ChColon>> ELSE <<>>)
           \o a.label

\* str.__lt__: comparison by code point, a proper prefix first
RECURSIVE StrLess(_, _)
StrLess(a, b) ==
    IF b = <<>> THEN FALSE
    ELSE IF a = <<>> THEN TRUE
    ELSE IF Head(a) # Head(b) THEN Head(a) < Head(b)
    ELSE StrLess(Tail(a), Tail(b))

\* insertion of x into a sorted list, after the elements not greater than it
RECURSIVE Insert(_, _)
Insert(x, s) ==
    IF s = <<>> THEN <<x>>
    ELSE IF StrLess(x, Head(s)) THEN <<x>> \o s
    ELSE <<Head(s)>> \o Insert(x, Tail(s))

\* a wrong rendering: the URIs in the order of the accounts
Unsorted(s) == s

\* contrib.py:218 -- sorted(...): ascending, stable
RECURSIVE SortedFrom(_, _)
SortedFrom(s, acc) ==
    IF s = <<>> THEN acc ELSE SortedFrom(Tail(s), Insert(Head(s), acc))
sorted(s) == SortedFrom(s, <<>>)

\* contrib.py:219-221 -- .replace("]", "        ]") on the serialised array:
\* every "]" of the text, the ones inside a URI included, gets eight spaces
RECURSIVE ReplaceRBracket(_)
ReplaceRBracket(u) ==
    IF u = <<>> THEN <<>>
    ELSE (IF Head(u) = ChRBracket
          THEN <<ChSpace, ChSpace, ChSpace, ChSpace, ChSpace, ChSpace, ChSpace,
                 ChSpace, ChRBracket>>
          ELSE <<Head(u)>>) \o ReplaceRBracket(Tail(u))

\* contrib.py:217-221 -- the array the page's script reads as ACCOUNTS
EmbeddedArray(accs, prepend) ==
    LET uris == [k \in 1..Len(accs) |-> as_uri(accs[k], prepend)]
        ordered == sorted(uris)
    IN  [k \in 1..Len(ordered) |-> ReplaceRBracket(ordered[k])]

RECURSIVE SeqsUpTo(_, _)
SeqsUpTo(S, n) ==
    IF n = 0 THEN { <<>> }
    ELSE LET shorter == SeqsUpTo(S, n - 1)
         IN  shorter \cup { Append(s, x) : s \in shorter, x \in S }

InitQrIdle ==
    /\ accounts = <<>>
    /\ prepend_issuer = FALSE
    /\ qpc = "idle"
    /\ embedded = <<>>
    /\ temp_html_file = "none"
    /\ written = FALSE
    /\ viewer = "none"
    /\ qpending = "none"
    /\ qresult = "none"

InitQr ==
    /\ accounts \in SeqsUpTo(Accounts, MaxAccounts)
    /\ prepend_issuer \in BOOLEAN
    /\ qpc = "render"
    /\ embedded = <<>>
    /\ temp_html_file = "none"
    /\ written = FALSE
    /\ viewer = "none"
    /\ qpending = "none"
    /\ qresult = "none"

\* contrib.py:63-221 -- accounts_html: the template with the array embedded
Render ==
    /\ qpc = "render"
    /\ embedded' = EmbeddedArray(accounts, prepend_issuer)
    /\ qpc' = "create"
    /\ UNCHANGED <<dbVars, escVars, accounts, prepend_issuer, temp_html_file,
                   written, viewer,
                   qpending, qresult>>

\* contrib.py:224 -- NamedTemporaryFile(delete=False, suffix='.html') creates the file
CreateFile ==
    /\ qpc = "create"
    /\ temp_html_file' = "exists"
    /\ qpc' = "write"
    /\ UNCHANGED <<dbVars, escVars, accounts, prepend_issuer, embedded,
                   written, viewer, qpending,
                   qresult>>

\* contrib.py:224 -- the file cannot be created: the error leaves the function
CreateFails ==
    /\ qpc = "create"
    /\ qresult' = "raised"
    /\ qpc' = "done"
    /\ UNCHANGED <<dbVars, escVars, accounts, prepend_issuer, embedded,
                   temp_html_file, written,
                   viewer, qpending>>

\* contrib.py:224-225 -- write and close succeed
WritePage ==
    /\ qpc = "write"
    /\ written' = TRUE
    /\ qpc' = "open"
    /\ UNCHANGED <<dbVars, escVars, accounts, prepend_issuer, embedded,
                   temp_html_file, viewer,
                   qpending, qresult>>

\* contrib.py:224-225 -- write (or the flush on close) raises OSError: the with
\* block closes the file, delete=False keeps it, and the try/finally of
\* line 227 is never entered
WriteFails ==
    /\ qpc = "write"
    /\ qresult' = "raised"
    /\ qpc' = "done"
    /\ UNCHANGED <<dbVars, escVars, accounts, prepend_issuer, embedded,
                   temp_html_file, written,
                   viewer, qpending>>

\* contrib.py:228 -- webbrowser.open launched a viewer (returns True)
OpenLaunched ==
    /\ qpc = "open"
    /\ viewer' = "launched"
    /\ qpc' = "sleep"
    /\ UNCHANGED <<dbVars, escVars, accounts, prepend_issuer, embedded,
                   temp_html_file, written,
                   qpending, qresult>>

\* contrib.py:228 -- webbrowser.open found no viewer it could launch: it
\* returns False, and the statement discards the value
OpenReturnsFalse ==
    /\ qpc = "open"
    /\ viewer' = "not_launched"
    /\ qpc' = "sleep"
    /\ UNCHANGED <<dbVars, escVars, accounts, prepend_issuer, embedded,
                   temp_html_file, written,
                   qpending, qresult>>

\* contrib.py:227-230 -- webbrowser.open (or pathname2url) raises: to the finally
OpenRaises ==
    /\ qpc = "open"
    /\ viewer' = "raised"
    /\ qpending' = "OpenError"
    /\ qpc' = "finally"
    /\ UNCHANGED <<dbVars, escVars, accounts, prepend_issuer, embedded,
                   temp_html_file, written,
                   qresult>>

\* contrib.py:229 -- time.sleep(10) runs to its end
Sleep ==
    /\ qpc = "sleep"
    /\ qpc' = "finally"
    /\ UNCHANGED <<dbVars, escVars, accounts, prepend_issuer, embedded,
                   temp_html_file, written,
                   viewer, qpending, qresult>>

\* contrib.py:229 -- time.sleep(10) is interrupted (KeyboardInterrupt)
SleepInterrupted ==
    /\ qpc = "sleep"
    /\ qpending' = "Interrupted"
    /\ qpc' = "finally"
    /\ UNCHANGED <<dbVars, escVars, accounts, prepend_issuer, embedded,
                   temp_html_file, written,
                   viewer, qresult>>

\* a wrong cleanup: the file is removed only when nothing was raised
RemoveOnSuccessOnly ==
    /\ qpc = "finally"
    /\ temp_html_file' = IF qpending = "none" THEN "removed" ELSE temp_html_file
    /\ qpc' = "exit"
    /\ UNCHANGED <<dbVars, escVars, accounts, prepend_issuer, embedded,
                   written, viewer, qpending,
                   qresult>>

\* contrib.py:230-231 -- finally: os.remove(temp_html_file.name)
Remove ==
    /\ qpc = "finally"
    /\ temp_html_file' = "removed"
    /\ qpc' = "exit"
    /\ UNCHANGED <<dbVars, escVars, accounts, prepend_issuer, embedded,
                   written, viewer, qpending,
                   qresult>>

\* contrib.py:231 -- after the finally: return, or the pending exception re-raised
Exit ==
    /\ qpc = "exit"
    /\ qresult' = IF qpending = "none" THEN "returned" ELSE "raised"
    /\ qpc' = "done"
    /\ UNCHANGED <<dbVars, escVars, accounts, prepend_issuer, embedded,
                   temp_html_file, written,
                   viewer, qpending>>

QrNext ==
    \/ Render
    \/ CreateFile
    \/ CreateFails
    \/ WritePage
    \/ WriteFails
    \/ OpenLaunched
    \/ OpenReturnsFalse
    \/ OpenRaises
    \/ Sleep
    \/ SleepInterrupted
    \/ Remove
    \/ Exit

(***************************************************************************)
(* SQL literal escaper: escape_sql_string                                  *)
(***************************************************************************)

\* bound: the longest `text` explored
MaxLen == 3

\* code points of SQL text
ChNul == 0
ChBackspace == 8
ChTab == 9
ChNewline == 10
ChReturn == 13
ChSub == 26
ChPercent == 37
ChQuote == 39
ChZero == 48
ChBackslash == 92
ChLowerB == 98
ChLowerN == 110
ChLowerR == 114
ChLowerT == 116
ChLowerZ == 122

\* the characters explored: the nine of the table, and two the table leaves
\* alone ("0" and "a")
Alphabet == {ChNul, ChBackspace, ChTab, ChSub, ChNewline, ChReturn, ChBackslash,
             ChPercent, ChQuote, ChZero, 97}

\* a wrong table: the entry of "%" is missing
SQL_BACKSLASHED_CHARS_NoPercent ==
    [c \in {ChNul, ChBackspace, ChTab, ChSub, ChNewline, ChReturn, ChBackslash,
            ChQuote} |->
        CASE c = ChNul       -> <<ChBackslash, ChZero>>
          [] c = ChBackspace -> <<ChBackslash, ChLowerB>>
          [] c = ChTab       -> <<ChBackslash, ChLowerT>>
          [] c = ChSub       -> <<ChBackslash, ChLowerZ>>
          [] c = ChNewline   -> <<ChBackslash, ChLowerN>>
          [] c = ChReturn    -> <<ChBackslash, ChLowerR>>
          [] c = ChBackslash -> <<ChBackslash, ChBackslash>>
          [] c = ChQuote     -> <<ChQuote, ChQuote>>]

\* contrib.py:15-25 -- str.maketrans({...}): character -> replacement
SQL_BACKSLASHED_CHARS ==
    [c \in {ChNul, ChBackspace, ChTab, ChSub, ChNewline, ChReturn, ChBackslash,
            ChPercent, ChQuote} |->
        CASE c = ChNul       -> <<ChBackslash, ChZero>>
          [] c = ChBackspace -> <<ChBackslash, ChLowerB>>
          [] c = ChTab       -> <<ChBackslash, ChLowerT>>
          [] c = ChSub       -> <<ChBackslash, ChLowerZ>>
          [] c = ChNewline   -> <<ChBackslash, ChLowerN>>
          [] c = ChReturn    -> <<ChBackslash, ChLowerR>>
          [] c = ChBackslash -> <<ChBackslash, ChBackslash>>
          [] c = ChPercent   -> <<ChBackslash, ChPercent>>
          [] c = ChQuote     -> <<ChQuote, ChQuote>>]

\* str.translate(table): one pass, a character outside the table kept
RECURSIVE translate(_, _)
translate(t, table) ==
    IF t = <<>> THEN <<>>
    ELSE (IF Head(t) \in DOMAIN table THEN table[Head(t)] ELSE <<Head(t)>>)
         \o translate(Tail(t), table)

\* contrib.py:27-32 -- "'" + text.translate(SQL_BACKSLASHED_CHARS) + "'"
escape_sql_string(t) ==
    <<ChQuote>> \o translate(t, SQL_BACKSLASHED_CHARS) \o <<ChQuote>>

\* contrib.py:28-30 -- the reader the literal is written for is SQLite, whose
\* string literals know one escape: '' stands for one quote; a backslash is an
\* ordinary character. A lone quote ends the literal.
RECURSIVE SqliteBody(_)
SqliteBody(s) ==
    IF s = <<>> THEN <<>>
    ELSE IF Head(s) = ChQuote
         THEN IF Len(s) >= 2 /\ s[2] = ChQuote
              THEN <<ChQuote>> \o SqliteBody(Tail(Tail(s)))
              ELSE <<>>
         ELSE <<Head(s)>> \o SqliteBody(Tail(s))
SqliteStringLiteral(lit) ==
    IF Len(lit) >= 2 /\ Head(lit) = ChQuote
    THEN SqliteBody(SubSeq(lit, 2, Len(lit)))
    ELSE <<>>

InitEscIdle ==
    /\ text = <<>>
    /\ epc = "idle"
    /\ literal = <<>>
    /\ parsed = <<>>

InitEsc ==
    /\ text \in SeqsUpTo(Alphabet, MaxLen)
    /\ epc = "call"
    /\ literal = <<>>
    /\ parsed = <<>>

\* contrib.py:27-32 -- the call of escape_sql_string(text)
Escape ==
    /\ epc = "call"
    /\ literal' = escape_sql_string(text)
    /\ epc' = "escaped"
    /\ UNCHANGED <<dbVars, qrVars, text, parsed>>

\* contrib.py:28-30 -- the literal is interpolated into a statement SQLite reads
ReadLiteral ==
    /\ epc = "escaped"
    /\ parsed' = SqliteStringLiteral(literal)
    /\ epc' = "read"
    /\ UNCHANGED <<dbVars, qrVars, text, literal>>

EscNext ==
    \/ Escape
    \/ ReadLiteral

(***************************************************************************)
(* Specifications                                                          *)
(***************************************************************************)

Init == InitDb /\ InitQrIdle /\ InitEscIdle
Spec == Init /\ [][Next]_vars

QrInit == InitDbIdle /\ InitQr /\ InitEscIdle
SpecQr == QrInit /\ [][QrNext]_vars

EscInit == InitDbIdle /\ InitQrIdle /\ InitEsc
SpecEsc == EscInit /\ [][EscNext]_vars

(***************************************************************************)
(* Claims                                                                  *)
(***************************************************************************)

\* the candidates adb.read_file answers with the file's contents
Present == {k \in 1..4 : status[k] = "present"}

\* the first candidate whose read fails with an error other than not-found
FirstError ==
    CHOOSE k \in 1..4 : status[k] = "error" /\ \A j \in 1..(k-1) : status[j] # "error"

\* C1: on every exit of the caller's block (normal completion, early return,
\* an exception of the caller's code) the connection is closed first and only
\* then the snapshot directory and its contents are removed; once the block has
\* exited the directory no longer exists; and no exit path gets stuck.
C1_CloseThenRemove ==
    /\ (yielded /\ pc = "done") =>
          /\ events = <<"close", "rmtree">>
          /\ connection = "closed"
          /\ ~temp_dir
          /\ DOMAIN local = {}
    /\ (yielded /\ ~temp_dir) => connection = "closed"
    /\ (yielded /\ pc \in {"close", "cleanup"}) => temp_dir
    /\ (pc \in {"yielded", "close", "cleanup"}) => ENABLED Next

C1_Witness ==
    /\ pc = "done" /\ yielded
    /\ result = "CallerError"
    /\ events = <<"close", "rmtree">>
    /\ ~temp_dir

\* C2: when the read of the primary file fails with not-found, that failure
\* reaches the caller, no connection is ever opened or yielded, and no
\* snapshot directory is left behind.
C2_PrimaryNotFound ==
    (pc # "enter" /\ Name(database) # <<>> /\ status[1] = "missing") =>
        /\ connection = "none"
        /\ ~yielded
        /\ pc \in {"loop", "cleanup", "done"}
        /\ pc = "done" =>
              /\ result = "FileNotFoundError"
              /\ ~temp_dir
              /\ DOMAIN local = {}

C2_Witness ==
    /\ pc = "done"
    /\ status[1] = "missing"
    /\ result = "FileNotFoundError"
    /\ Len(reads) = 1
    /\ ~temp_dir

\* C4: with the primary present, a not-found side file is skipped and the
\* retrieval goes on: when the connection is yielded the directory holds
\* exactly the primary and the present side files, each under its remote base
\* name with the remote bytes (one file when no side file is present); and a
\* run whose only failures are not-found side files does yield.
C4_SnapshotContents ==
    /\ pc = "yielded" =>
          /\ 1 \in Present
          /\ DOMAIN local = { Name(database) \o Suffixes[k] : k \in Present }
          /\ \A k \in Present : local[Name(database) \o Suffixes[k]] = content[k]
          /\ Cardinality(DOMAIN local) = Cardinality(Present)
          /\ (Present = {1} => Cardinality(DOMAIN local) = 1)
    /\ (/\ pc = "done"
        /\ Name(database) # <<>>
        /\ status[1] = "present"
        /\ \A k \in 2..4 : status[k] # "error") => yielded

C4_Witness ==
    /\ pc = "yielded"
    /\ status = <<"present", "missing", "present", "missing">>
    /\ content[1] = <<>> /\ content[3] = <<1>>
    /\ Cardinality(DOMAIN local) = 2

\* C5: a read failure of any class other than not-found, on the primary or on
\* a side file, reaches the caller: no later file is read, no connection is
\* opened or yielded, and the snapshot directory is removed.
C5_OtherFailurePropagates ==
    (/\ pc # "enter"
     /\ Name(database) # <<>>
     /\ status[1] # "missing"
     /\ \E k \in 1..4 : status[k] = "error") =>
        /\ connection = "none"
        /\ ~yielded
        /\ Len(reads) <= FirstError
        /\ pc \in {"loop", "cleanup", "done"}
        /\ pc = "done" =>
              /\ result = "TransferFailure"
              /\ Len(reads) = FirstError
              /\ ~temp_dir
              /\ DOMAIN local = {}

C5_Witness ==
    /\ pc = "done"
    /\ status = <<"present", "missing", "error", "present">>
    /\ result = "TransferFailure"
    /\ Len(reads) = 3
    /\ ~temp_dir

\* C9: the remote paths read are, in order, p itself and p with -journal, -wal
\* and -shm appended after the full file name (same parent, extension kept);
\* nothing else is read, and all four are read before a connection is yielded.
\* Paths are compared as paths (the PurePosixPath of the argument).
C9_ExpectedPath(k) ==
    [root  |-> database.root,
     parts |-> [j \in 1..Len(database.parts) |->
                  IF j < Len(database.parts) THEN database.parts[j]
                  ELSE database.parts[j] \o
                       (CASE k = 1 -> <<>>
                          [] k = 2 -> <<"-", "j", "o", "u", "r", "n", "a", "l">>
                          [] k = 3 -> <<"-", "w", "a", "l">>
                          [] k = 4 -> <<"-", "s", "h", "m">>)]]

C9_RemotePaths ==
    /\ Len(reads) <= 4
    /\ (Name(database) = <<>>) => reads = <<>>
    /\ \A k \in 1..Len(reads) : reads[k] = C9_ExpectedPath(k)
    /\ Len(reads) >= 1 => reads[1] = database
    /\ yielded => Len(reads) = 4
    /\ (database_arg = <<"/", "d", "/", "a", ".", "d", "b">> /\ Len(reads) >= 3) =>
          reads[3] = [root |-> TRUE,
                      parts |-> << <<"d">>,
                                   <<"a", ".", "d", "b", "-", "w", "a", "l">> >>]

C9_Witness ==
    /\ pc = "yielded"
    /\ database_arg = <<"/", "d", "/", ".", "/", "a", ".", "b", ".", "c">>
    /\ Len(reads) = 4
    /\ reads[4] = [root |-> TRUE,
                   parts |-> << <<"d">>,
                                <<"a", ".", "b", ".", "c", "-", "s", "h", "m">> >>]

\* C3: after display_qr_codes has returned or raised, from whatever step, the
\* temporary HTML file it created is no longer on disk.
C3_NoFileLeftBehind ==
    qpc = "done" => temp_html_file # "exists"

\* C6 as stated: every failure to invoke the viewer makes the call fail, the
\* temporary file deleted before the failure is surfaced.
C6_ViewerFailureIsFatal ==
    (qpc = "done" /\ viewer \in {"not_launched", "raised"}) =>
        (qresult = "raised" /\ temp_html_file = "removed")

\* C6 as amended: an exception raised by the open step reaches the caller,
\* and the temporary file is deleted before it does, whether or not the open
\* step succeeded; a viewer that webbrowser.open reports as not launched (it
\* returns False) is not surfaced: the call waits, deletes the file and
\* returns normally unless the wait itself is interrupted.
C6_OpenExceptionIsFatal ==
    /\ viewer = "raised" =>
          /\ qpc \in {"finally", "exit", "done"}
          /\ qpending = "OpenError"
          /\ qpc \in {"exit", "done"} => temp_html_file = "removed"
          /\ qpc = "done" <=> qresult = "raised"
    /\ (viewer # "none" /\ qpc \in {"exit", "done"}) => temp_html_file = "removed"
    /\ (viewer = "not_launched" /\ qpc = "done") =>
          (qresult = "raised" <=> qpending = "Interrupted")

C6_Witness ==
    /\ qpc = "done"
    /\ viewer = "raised"
    /\ qresult = "raised"
    /\ temp_html_file = "removed"

\* lexicographic order by code point, stated position by position
C10_LexLeq(a, b) ==
    \/ (Len(a) <= Len(b) /\ \A i \in 1..Len(a) : a[i] = b[i])
    \/ \E i \in 1..Len(a) :
          /\ i <= Len(b)
          /\ a[i] < b[i]
          /\ \A j \in 1..(i-1) : a[j] = b[j]

C10_Count(s, x) == Cardinality({k \in 1..Len(s) : s[k] = x})

C10_Permutations(n) ==
    {g \in [1..n -> 1..n] : \A a, b \in 1..n : g[a] = g[b] => a = b}

\* C10: the embedded array depends on the collection of URIs only: it holds
\* the accounts' URIs, each as often as given, in ascending lexicographic
\* order, and every permutation of the accounts renders the same array.
C10_SortedArray ==
    qpc \notin {"idle", "render"} =>
        LET n == Len(accounts)
            uris == [k \in 1..n |-> as_uri(accounts[k], prepend_issuer)]
        IN  /\ Len(embedded) = n
            /\ \A k \in 1..n : C10_Count(embedded, uris[k]) = C10_Count(uris, uris[k])
            /\ \A k \in 1..(n-1) : C10_LexLeq(embedded[k], embedded[k+1])
            /\ \A g \in C10_Permutations(n) :
                  EmbeddedArray([k \in 1..n |-> accounts[g[k]]], prepend_issuer)
                      = embedded

C10_Witness ==
    /\ qpc = "done"
    /\ ~prepend_issuer
    /\ accounts = << [type |-> <<116>>, issuer |-> <<73>>, label |-> <<66>>],
                     [type |-> <<116>>, issuer |-> <<74>>, label |-> <<65>>] >>
    /\ embedded = << <<116, 47, 65>>, <<116, 47, 66>> >>

\* C7: what SQLite reads from the literal escape_sql_string returned is the
\* original text.
C7_RoundTrip ==
    epc = "read" => parsed = text

\* the substitution table as the specification lists it
C8_Substitution(c) ==
    CASE c = 0  -> <<92, 48>>
      [] c = 8  -> <<92, 98>>
      [] c = 9  -> <<92, 116>>
      [] c = 26 -> <<92, 122>>
      [] c = 10 -> <<92, 110>>
      [] c = 13 -> <<92, 114>>
      [] c = 92 -> <<92, 92>>
      [] c = 37 -> <<92, 37>>
      [] c = 39 -> <<39, 39>>
      [] OTHER  -> <<c>>

RECURSIVE C8_Matches(_, _)
C8_Matches(t, out) ==
    IF t = <<>> THEN out = <<>>
    ELSE LET sub == C8_Substitution(Head(t))
         IN  /\ Len(out) >= Len(sub)
             /\ SubSeq(out, 1, Len(sub)) = sub
             /\ C8_Matches(Tail(t), SubSeq(out, Len(sub) + 1, Len(out)))

\* C8: the result is a quote, the input with each table character replaced by
\* its substitution and every other character kept in place, and a quote; the
\* call is defined for every input.
C8_EscapedForm ==
    /\ epc = "call" => ENABLED Escape
    /\ epc \in {"escaped", "read"} =>
          /\ Len(literal) >= 2
          /\ literal[1] = 39
          /\ literal[Len(literal)] = 39
          /\ C8_Matches(text, SubSeq(literal, 2, Len(literal) - 1))

C8_Witness ==
    /\ epc = "escaped"
    /\ text = <<37, 97, 39>>
    /\ literal = <<39, 92, 37, 97, 39, 39, 39>>

====
